---- MODULE Spec2Model ----
(***************************************************************************)
(* Model of gen_secrets.py: the JWT key-pair provisioning workflow.        *)
(*                                                                         *)
(*   find_project_root  walks upward from the script's directory looking   *)
(*                      for pom.xml                                        *)
(*   generate_keys      skips, or runs "openssl genpkey" and then          *)
(*                      "openssl rsa -pubout" for one directory            *)
(*   main               find_project_root, generate_keys for every entry   *)
(*                      of KEY_LOCATIONS, then the check that every        *)
(*                      location has both files, giving the exit code      *)
(*                                                                         *)
(* Directories on the path from the filesystem root to the script's        *)
(* directory are numbered by depth: 0 is the filesystem root.  fs[l] is    *)
(* the state of the directory project_root / l; project_root is fixed by   *)
(* start and marker, which no action changes.  openssl is an external      *)
(* program: each invocation nondeterministically succeeds and writes its   *)
(* output file, returns 0 without writing it, exits with a non-zero        *)
(* status, or cannot be started at all.  mkdir and exists() are taken to   *)
(* succeed.                                                                *)
(***************************************************************************)
EXTENDS Integers, Sequences, FiniteSets, TLC

\* ------------------------------------------------------------- bounds
\* deepest script directory explored by RootSpec
MaxDepth == 3
\* depth of the script's directory in Spec (the whole workflow)
MainDepth == 1
\* number of distinct key pairs openssl may generate
NumKeys == 2

\* ---------------------------------------------------------- constants
KEY_LOCATIONS ==
    << "thunder/engine/provider/src/main/resources",
       "thunder/engine/provider/src/test/resources" >>

PRIVATE_KEY_NAME == "privateKey.pem"

PUBLIC_KEY_NAME == "publicKey.pem"

Locations == { KEY_LOCATIONS[n] : n \in 1..Len(KEY_LOCATIONS) }

\* contents of a key file: Absent, or the key pair it belongs to
Absent == 0

Keys == 1..NumKeys

\* project_root before find_project_root has returned
NoDir == -1

\* exit_code while main is running
Running == -1

\* what one invocation of openssl may do
PrimitiveBehaviours == { "ok", "ok_nofile", "fail", "notfound" }

VARIABLES
    start,          \* depth of Path(__file__).resolve().parent
    marker,         \* depths of the directories that contain pom.xml
    current,        \* find_project_root: the directory being tested
    project_root,   \* main: the value find_project_root returned
    fs,             \* fs[l]: directory and the two key files of location l
    force,          \* "--force" in sys.argv
    pc,             \* position of main
    i,              \* main: index of the location being processed
    success_count,  \* main: number of generate_keys calls that returned True
    report,         \* per location, the return path generate_keys took
    ret,            \* per location, the value generate_keys returned
    calls,          \* the openssl invocations of this run, in order
    fs0,            \* fs when this run started
    missing,        \* locations the final check warned about
    exit_code,      \* value returned by main
    prev_exit,      \* exit code of the previous run, Running if none
    par             \* ParSpec: the same run with one worker per location

vars == << start, marker, current, project_root, fs, force, pc, i,
           success_count, report, ret, calls, fs0, missing, exit_code,
           prev_exit, par >>

rootVars == << start, marker, current, project_root >>

\* ------------------------------------------------------ filesystem
DirStates ==
    { d \in [ dir : BOOLEAN, priv : {Absent} \cup Keys, pub : {Absent} \cup Keys ] :
        (~d.dir) => (d.priv = Absent /\ d.pub = Absent) }

NoDirectory == [ dir |-> FALSE, priv |-> Absent, pub |-> Absent ]

\* the workers before they are started
ParIdle ==
    [ fs      |-> [ l \in Locations |-> NoDirectory ],
      pc      |-> [ l \in Locations |-> "idle" ],
      outcome |-> [ l \in Locations |-> "None" ],
      order   |-> << >>,
      missing |-> << >>,
      exit    |-> Running ]

\* private_key_path.exists()
PrivateExists(d) == d.priv # Absent

\* public_key_path.exists()
PublicExists(d) == d.pub # Absent

\* ------------------------------------------------ find_project_root
\* Path.parent: the parent of the filesystem root is the root itself
Parent(c) == IF c = 0 THEN 0 ELSE c - 1

\* mutant: the walk has no stop at the filesystem root
WalkGuard_Always(c) == TRUE

\* while current != current.parent
WalkGuard(c) == c # Parent(c)

\* (current / "pom.xml").exists()
HasMarker(c) == c \in marker

FindRootFound ==
    /\ pc = "locate"
    /\ WalkGuard(current)
    /\ HasMarker(current)
    /\ project_root' = current
    /\ pc' = "loop"
    /\ UNCHANGED << start, marker, current, fs, force, i, success_count,
                    report, ret, calls, fs0, missing, exit_code, prev_exit, par >>

FindRootAscend ==
    /\ pc = "locate"
    /\ WalkGuard(current)
    /\ ~HasMarker(current)
    /\ current' = Parent(current)
    /\ UNCHANGED << start, marker, project_root, fs, force, pc, i,
                    success_count, report, ret, calls, fs0, missing,
                    exit_code, prev_exit, par >>

\* mutant: the fallback returns the directory the walk ended at
FindRootFallback_ReturnsCurrent ==
    /\ pc = "locate"
    /\ ~WalkGuard(current)
    /\ project_root' = current
    /\ pc' = "loop"
    /\ UNCHANGED << start, marker, current, fs, force, i, success_count,
                    report, ret, calls, fs0, missing, exit_code, prev_exit, par >>

FindRootFallback ==
    /\ pc = "locate"
    /\ ~WalkGuard(current)
    /\ project_root' = start
    /\ pc' = "loop"
    /\ UNCHANGED << start, marker, current, fs, force, i, success_count,
                    report, ret, calls, fs0, missing, exit_code, prev_exit, par >>

\* ---------------------------------------------------- generate_keys
\* mutant: key_dir is computed once, before the loop
Loc_First == KEY_LOCATIONS[1]

\* the location main is processing
Loc == KEY_LOCATIONS[i]

\* mutants of the skip test: "not" dropped, force ignored, "or" for "and"
ShouldSkip_ForceInverted(d, f) == PrivateExists(d) /\ PublicExists(d) /\ f

ShouldSkip_IgnoresForce(d, f) == PrivateExists(d) /\ PublicExists(d)

ShouldSkip_Or(d, f) == (PrivateExists(d) /\ PublicExists(d)) \/ ~f

\* mutant: one existing file is enough to skip
ShouldSkip_EitherExists(d, f) == (PrivateExists(d) \/ PublicExists(d)) /\ ~f

\* if private_key_path.exists() and public_key_path.exists() and not force
ShouldSkip(d, f) == PrivateExists(d) /\ PublicExists(d) /\ ~f

\* the value generate_keys returns on each of its return paths
ReturnValue(o) == o = "Generated"

\* the index main's for loop continues with after generate_keys returned
NextLocation(n) == n + 1

\* generate_keys returns along path o; main counts it and moves on
Return(o) ==
    /\ report' = Append(report, o)
    /\ ret' = Append(ret, ReturnValue(o))
    /\ success_count' = IF ReturnValue(o) THEN success_count + 1 ELSE success_count
    /\ i' = NextLocation(i)
    /\ pc' = "loop"

Invoke(step, b) == calls' = Append(calls, [ loc |-> Loc, step |-> step, result |-> b ])

KeysAlreadyExist ==
    /\ pc = "loop"
    /\ i <= Len(KEY_LOCATIONS)
    /\ ShouldSkip(fs[Loc], force)
    /\ Return("Skipped")
    /\ UNCHANGED << rootVars, fs, force, calls, fs0, missing, exit_code, prev_exit, par >>

\* output_dir.mkdir(parents=True, exist_ok=True)
EnsureDir ==
    /\ pc = "loop"
    /\ i <= Len(KEY_LOCATIONS)
    /\ ~ShouldSkip(fs[Loc], force)
    /\ fs' = [ fs EXCEPT ![Loc].dir = TRUE ]
    /\ pc' = "genpkey"
    /\ UNCHANGED << rootVars, force, i, success_count, report, ret, calls,
                    fs0, missing, exit_code, prev_exit, par >>

\* openssl genpkey returns 0 and has written a freshly generated key
GenPrivateOk ==
    /\ pc = "genpkey"
    /\ \E k \in Keys : fs' = [ fs EXCEPT ![Loc].priv = k ]
    /\ Invoke("genpkey", "ok")
    /\ pc' = "pubout"
    /\ UNCHANGED << rootVars, force, i, success_count, report, ret, fs0,
                    missing, exit_code, prev_exit, par >>

\* openssl genpkey returns 0 but the file was not written
GenPrivateNoFile ==
    /\ pc = "genpkey"
    /\ Invoke("genpkey", "ok_nofile")
    /\ pc' = "pubout"
    /\ UNCHANGED << rootVars, fs, force, i, success_count, report, ret, fs0,
                    missing, exit_code, prev_exit, par >>

\* mutant: the first subprocess.run is not checked, the second runs anyway
GenPrivateFails_Continues ==
    /\ pc = "genpkey"
    /\ \E b \in { "fail", "notfound" } : Invoke("genpkey", b)
    /\ pc' = "pubout"
    /\ UNCHANGED << rootVars, fs, force, i, success_count, report, ret, fs0,
                    missing, exit_code, prev_exit, par >>

\* mutant: the except clause ends the loop over the locations
GenPrivateFails_Abort ==
    /\ pc = "genpkey"
    /\ \E b \in { "fail", "notfound" } : Invoke("genpkey", b)
    /\ report' = Append(report, "Failed")
    /\ ret' = Append(ret, FALSE)
    /\ i' = Len(KEY_LOCATIONS) + 1
    /\ pc' = "loop"
    /\ UNCHANGED << rootVars, fs, force, success_count, fs0, missing,
                    exit_code, prev_exit, par >>

\* CalledProcessError or FileNotFoundError raised by the first subprocess.run
GenPrivateFails ==
    /\ pc = "genpkey"
    /\ \E b \in { "fail", "notfound" } : Invoke("genpkey", b)
    /\ Return("Failed")
    /\ UNCHANGED << rootVars, fs, force, fs0, missing, exit_code, prev_exit, par >>

\* the key openssl rsa -pubout derives from the private key file
DerivedFrom(d) == IF PrivateExists(d) THEN { d.priv } ELSE Keys

\* openssl rsa -pubout returns 0 and has written the public key
GenPublicOk ==
    /\ pc = "pubout"
    /\ \E k \in DerivedFrom(fs[Loc]) : fs' = [ fs EXCEPT ![Loc].pub = k ]
    /\ Invoke("pubout", "ok")
    /\ Return("Generated")
    /\ UNCHANGED << rootVars, force, fs0, missing, exit_code, prev_exit, par >>

\* openssl rsa -pubout returns 0 but the file was not written
GenPublicNoFile ==
    /\ pc = "pubout"
    /\ Invoke("pubout", "ok_nofile")
    /\ Return("Generated")
    /\ UNCHANGED << rootVars, fs, force, fs0, missing, exit_code, prev_exit, par >>

\* mutant: the except clause removes the private key written just before
GenPublicFails_Rollback ==
    /\ pc = "pubout"
    /\ \E b \in { "fail", "notfound" } : Invoke("pubout", b)
    /\ fs' = [ fs EXCEPT ![Loc].priv = Absent ]
    /\ Return("Failed")
    /\ UNCHANGED << rootVars, force, fs0, missing, exit_code, prev_exit, par >>

\* CalledProcessError or FileNotFoundError raised by the second subprocess.run
GenPublicFails ==
    /\ pc = "pubout"
    /\ \E b \in { "fail", "notfound" } : Invoke("pubout", b)
    /\ Return("Failed")
    /\ UNCHANGED << rootVars, fs, force, fs0, missing, exit_code, prev_exit, par >>

\* ------------------------------------------------------------- main
\* mutant: the final check looks at the private key only
KeysMissing_PrivateOnly(d) == ~PrivateExists(d)

\* if not (private_key.exists() and public_key.exists())
KeysMissing(d) == ~(PrivateExists(d) /\ PublicExists(d))

\* mutant: the final loop stops at the first location it warns about
MissingLocations_FirstOnly(f) ==
    LET all == SelectSeq(KEY_LOCATIONS, LAMBDA l : KeysMissing(f[l]))
    IN  IF all = << >> THEN << >> ELSE << Head(all) >>

\* the locations the final loop prints a warning for
MissingLocations(f) == SelectSeq(KEY_LOCATIONS, LAMBDA l : KeysMissing(f[l]))

\* return 0 if all_present else 1
ExitCode(all_present) == IF all_present THEN 0 ELSE 1

\* mutant: the exit code is taken from what generate_keys reported
Verify_TrustsOutcomes ==
    /\ pc = "loop"
    /\ i > Len(KEY_LOCATIONS)
    /\ missing' = SelectSeq(KEY_LOCATIONS,
                    LAMBDA l : \E n \in 1..Len(report) :
                                 KEY_LOCATIONS[n] = l /\ report[n] = "Failed")
    /\ exit_code' = ExitCode(\A n \in 1..Len(report) : report[n] # "Failed")
    /\ pc' = "done"
    /\ UNCHANGED << rootVars, fs, force, i, success_count, report, ret,
                    calls, fs0, prev_exit, par >>

\* the summary and the final check, after the last location
Verify ==
    /\ pc = "loop"
    /\ i > Len(KEY_LOCATIONS)
    /\ missing' = MissingLocations(fs)
    /\ exit_code' = ExitCode(MissingLocations(fs) = << >>)
    /\ pc' = "done"
    /\ UNCHANGED << rootVars, fs, force, i, success_count, report, ret,
                    calls, fs0, prev_exit, par >>

\* the script is run again on the filesystem the last run left
NewRun ==
    /\ pc = "done"
    /\ force' \in BOOLEAN
    /\ prev_exit' = exit_code
    /\ exit_code' = Running
    /\ fs0' = fs
    /\ current' = start
    /\ project_root' = NoDir
    /\ i' = 1
    /\ success_count' = 0
    /\ report' = << >>
    /\ ret' = << >>
    /\ calls' = << >>
    /\ missing' = << >>
    /\ pc' = "locate"
    /\ UNCHANGED << start, marker, fs, par >>

\* ------------------------------------- one worker per location
\* The run main has just finished is repeated from the same starting
\* filesystem with the loop body of each location as a process of its
\* own, the processes interleaved in any order.  Each openssl invocation
\* does what the invocation for the same location and step did in main's
\* run; an invocation main's run did not make may do anything.

\* index of location l in KEY_LOCATIONS
IndexOf(l) == CHOOSE n \in 1..Len(KEY_LOCATIONS) : KEY_LOCATIONS[n] = l

\* what main's run saw openssl do for location l at this step
Recorded(l, step) ==
    { c.result : c \in { calls[k] : k \in { j \in 1..Len(calls) :
                    calls[j].loc = l /\ calls[j].step = step } } }

Replayed(l, step) ==
    IF Recorded(l, step) = {} THEN PrimitiveBehaviours ELSE Recorded(l, step)

\* the key openssl wrote for location l at this step
ReplayedKey(l, step, derived) ==
    IF Recorded(l, step) = { "ok" }
    THEN { IF step = "genpkey" THEN fs[l].priv ELSE fs[l].pub }
    ELSE derived

ParReturn(l, o) ==
    [ par EXCEPT !.pc[l] = "returned",
                 !.outcome[l] = o,
                 !.order = Append(@, l) ]

ParUnchanged ==
    UNCHANGED << rootVars, fs, force, pc, i, success_count, report, ret,
                 calls, fs0, missing, exit_code, prev_exit >>

ParStart ==
    /\ pc = "done"
    /\ par = ParIdle
    /\ par' = [ par EXCEPT !.fs = fs0,
                            !.pc = [ l \in Locations |-> "enter" ] ]
    /\ ParUnchanged

ParKeysAlreadyExist(l) ==
    /\ par.pc[l] = "enter"
    /\ ShouldSkip(par.fs[l], force)
    /\ par' = ParReturn(l, "Skipped")
    /\ ParUnchanged

ParEnsureDir(l) ==
    /\ par.pc[l] = "enter"
    /\ ~ShouldSkip(par.fs[l], force)
    /\ par' = [ par EXCEPT !.fs[l].dir = TRUE, !.pc[l] = "genpkey" ]
    /\ ParUnchanged

ParGenPrivateOk(l) ==
    /\ par.pc[l] = "genpkey"
    /\ "ok" \in Replayed(l, "genpkey")
    /\ \E k \in ReplayedKey(l, "genpkey", Keys) :
          par' = [ par EXCEPT !.fs[l].priv = k, !.pc[l] = "pubout" ]
    /\ ParUnchanged

ParGenPrivateNoFile(l) ==
    /\ par.pc[l] = "genpkey"
    /\ "ok_nofile" \in Replayed(l, "genpkey")
    /\ par' = [ par EXCEPT !.pc[l] = "pubout" ]
    /\ ParUnchanged

ParGenPrivateFails(l) ==
    /\ par.pc[l] = "genpkey"
    /\ Replayed(l, "genpkey") \cap { "fail", "notfound" } # {}
    /\ par' = ParReturn(l, "Failed")
    /\ ParUnchanged

ParGenPublicOk(l) ==
    /\ par.pc[l] = "pubout"
    /\ "ok" \in Replayed(l, "pubout")
    /\ \E k \in ReplayedKey(l, "pubout", DerivedFrom(par.fs[l])) :
          par' = [ ParReturn(l, "Generated") EXCEPT !.fs[l].pub = k ]
    /\ ParUnchanged

ParGenPublicNoFile(l) ==
    /\ par.pc[l] = "pubout"
    /\ "ok_nofile" \in Replayed(l, "pubout")
    /\ par' = ParReturn(l, "Generated")
    /\ ParUnchanged

ParGenPublicFails(l) ==
    /\ par.pc[l] = "pubout"
    /\ Replayed(l, "pubout") \cap { "fail", "notfound" } # {}
    /\ par' = ParReturn(l, "Failed")
    /\ ParUnchanged

\* the final check, once every worker has returned
ParVerify ==
    /\ \A l \in Locations : par.pc[l] = "returned"
    /\ par.exit = Running
    /\ par' = [ par EXCEPT !.missing = MissingLocations(par.fs),
                            !.exit = ExitCode(MissingLocations(par.fs) = << >>) ]
    /\ ParUnchanged

ParWorker(l) ==
    \/ ParKeysAlreadyExist(l)
    \/ ParEnsureDir(l)
    \/ ParGenPrivateOk(l)
    \/ ParGenPrivateNoFile(l)
    \/ ParGenPrivateFails(l)
    \/ ParGenPublicOk(l)
    \/ ParGenPublicNoFile(l)
    \/ ParGenPublicFails(l)

\* --------------------------------------------------- specifications
\* state of main when it calls find_project_root
MainEntry ==
    /\ current = start
    /\ project_root = NoDir
    /\ pc = "locate"
    /\ i = 1
    /\ success_count = 0
    /\ report = << >>
    /\ ret = << >>
    /\ calls = << >>
    /\ missing = << >>
    /\ exit_code = Running
    /\ prev_exit = Running
    /\ par = ParIdle

\* every filesystem state of the key locations and both values of force;
\* pom.xml is beside the script or nowhere (RootSpec has every placement)
Init ==
    /\ start = MainDepth
    /\ marker \in { {}, { start } }
    /\ fs \in [ Locations -> DirStates ]
    /\ fs0 = fs
    /\ force \in BOOLEAN
    /\ MainEntry

FindProjectRoot == FindRootFound \/ FindRootAscend \/ FindRootFallback

GenerateKeys ==
    \/ KeysAlreadyExist
    \/ EnsureDir
    \/ GenPrivateOk
    \/ GenPrivateNoFile
    \/ GenPrivateFails
    \/ GenPublicOk
    \/ GenPublicNoFile
    \/ GenPublicFails

Next == FindProjectRoot \/ GenerateKeys \/ Verify \/ NewRun

Spec == Init /\ [][Next]_vars

\* the steps of one run of main; each is taken once it can be: the
\* interpreter goes on to the next statement and subprocess.run returns
RunSteps == FindProjectRoot \/ GenerateKeys \/ Verify

\* one run of main from every initial state
FairSpec == Init /\ [][RunSteps]_vars /\ WF_vars(RunSteps)

\* main from the start of its loop, pom.xml found beside the script, then
\* the same run with one worker per location
ParInit ==
    /\ start = MainDepth
    /\ marker = { start }
    /\ fs \in [ Locations -> DirStates ]
    /\ fs0 = fs
    /\ force \in BOOLEAN
    /\ current = start
    /\ project_root = start
    /\ pc = "loop"
    /\ i = 1
    /\ success_count = 0
    /\ report = << >>
    /\ ret = << >>
    /\ calls = << >>
    /\ missing = << >>
    /\ exit_code = Running
    /\ prev_exit = Running
    /\ par = ParIdle

ParNext ==
    \/ GenerateKeys
    \/ Verify
    \/ ParStart
    \/ \E l \in Locations : ParWorker(l)
    \/ ParVerify

ParSpec == ParInit /\ [][ParNext]_vars

\* find_project_root alone, over every script depth and marker placement
RootInit ==
    /\ start \in 0..MaxDepth
    /\ marker \in SUBSET (0..MaxDepth)
    /\ fs = [ l \in Locations |-> NoDirectory ]
    /\ fs0 = fs
    /\ force = FALSE
    /\ MainEntry

RootNext == FindRootFound \/ FindRootAscend \/ FindRootFallback

RootSpec == RootInit /\ [][RootNext]_vars /\ WF_vars(RootNext)

TypeOK ==
    /\ start \in 0..MaxDepth
    /\ marker \subseteq 0..MaxDepth
    /\ current \in 0..MaxDepth
    /\ project_root \in {NoDir} \cup (0..MaxDepth)
    /\ fs \in [ Locations -> DirStates ]
    /\ fs0 \in [ Locations -> DirStates ]
    /\ force \in BOOLEAN
    /\ pc \in { "locate", "loop", "genpkey", "pubout", "done" }
    /\ i \in 1..(Len(KEY_LOCATIONS) + 1)
    /\ success_count \in 0..Len(KEY_LOCATIONS)
    /\ Len(report) = i - 1
    /\ Len(ret) = i - 1
    /\ \A n \in 1..Len(calls) : calls[n].result \in PrimitiveBehaviours
    /\ exit_code \in { Running, 0, 1 }
    /\ prev_exit \in { Running, 0, 1 }

\* ------------------------------------------------------- properties
Range(s) == { s[n] : n \in 1..Len(s) }

\* both key files of a location are present
BothPresent(d) == d.priv # Absent /\ d.pub # Absent

\* neither key file of a location is present
NonePresent(d) == d.priv = Absent /\ d.pub = Absent

\* results of the openssl invocations made for the n-th location, per step
ResultsOf(n, step) ==
    { c.result : c \in { x \in Range(calls) :
                           x.loc = KEY_LOCATIONS[n] /\ x.step = step } }

\* openssl was invoked for the n-th location
Invoked(n) == ResultsOf(n, "genpkey") # {}

\* both steps returned status 0 for the n-th location
BothStepsReturnedOk(n) ==
    /\ ResultsOf(n, "genpkey") \cap { "ok", "ok_nofile" } # {}
    /\ ResultsOf(n, "pubout") \cap { "ok", "ok_nofile" } # {}

\* both steps succeeded and produced their files for the n-th location
PrimitiveSucceeded(n) ==
    /\ ResultsOf(n, "genpkey") = { "ok" }
    /\ ResultsOf(n, "pubout") = { "ok" }

\* a step raised for the n-th location
PrimitiveFailed(n) ==
    (ResultsOf(n, "genpkey") \cup ResultsOf(n, "pubout")) \cap { "fail", "notfound" } # {}

AllReported(o) == report = [ n \in 1..Len(KEY_LOCATIONS) |-> o ]

\* C1: when main has returned, the exit code is 0 if every configured
\* location has both the private and the public key file, and 1 otherwise.
C1_ExitContract ==
    pc = "done" =>
        /\ exit_code \in { 0, 1 }
        /\ exit_code = 0 <=> \A l \in Locations : BothPresent(fs[l])

\* a run that generated keys somewhere and exits 0
C1_Witness ==
    /\ pc = "done"
    /\ exit_code = 0
    /\ "Generated" \in Range(report)
    /\ "Skipped" \in Range(report)

\* C2: in a run without force that started with both files present at
\* every location, every location processed so far is Skipped, openssl has
\* not been invoked and the filesystem is as it was at the start; the run
\* processes every location; so a run without force that follows a run
\* that exited 0 skips every location.
C2_Idempotence ==
    /\ (~force /\ \A l \in Locations : BothPresent(fs0[l])) =>
            /\ \A n \in 1..Len(report) : report[n] = "Skipped"
            /\ calls = << >>
            /\ fs = fs0
            /\ pc = "done" => AllReported("Skipped")
    /\ (~force /\ prev_exit = 0 /\ pc = "done") =>
            AllReported("Skipped") /\ calls = << >> /\ fs = fs0

\* the second of two runs, without force, after a run that exited 0
C2_Witness ==
    /\ pc = "done"
    /\ ~force
    /\ prev_exit = 0
    /\ AllReported("Skipped")
    /\ \E l \in Locations : fs[l].priv = NumKeys

\* C3 (as stated): with force, a location that had both files is never
\* skipped, openssl is invoked for it and its outcome is Generated.
C3_ForceAlwaysGenerated ==
    \A n \in 1..Len(report) :
        (force /\ BothPresent(fs0[KEY_LOCATIONS[n]])) =>
            Invoked(n) /\ report[n] = "Generated"

\* C3 (amended): with force, a location that had both files is never
\* skipped and openssl is invoked for it; its outcome is Generated when
\* both openssl steps returned without error and Failed otherwise.
C3_ForceReinvokes ==
    \A n \in 1..Len(report) :
        (force /\ BothPresent(fs0[KEY_LOCATIONS[n]])) =>
            /\ report[n] # "Skipped"
            /\ Invoked(n)
            /\ report[n] = (IF BothStepsReturnedOk(n) THEN "Generated" ELSE "Failed")

\* a forced run over existing keys that regenerated a location
C3_Witness ==
    /\ pc = "done"
    /\ force
    /\ \E n \in 1..Len(report) :
          /\ BothPresent(fs0[KEY_LOCATIONS[n]])
          /\ report[n] = "Generated"
          /\ fs[KEY_LOCATIONS[n]].priv # fs0[KEY_LOCATIONS[n]].priv

\* C4: a run that has ended has processed every location, whatever failed;
\* and when openssl failed for one location and succeeded for another, the
\* first is reported Failed, the second Generated, and the second has both
\* files.
C4_FailureIsolation ==
    /\ pc = "done" => Len(report) = Len(KEY_LOCATIONS)
    /\ \A a, b \in 1..Len(report) :
          (a # b /\ PrimitiveFailed(a) /\ PrimitiveSucceeded(b)) =>
              /\ report[a] = "Failed"
              /\ report[b] = "Generated"
              /\ BothPresent(fs[KEY_LOCATIONS[b]])

\* the first location failed, the second was generated from nothing
C4_Witness ==
    /\ pc = "done"
    /\ PrimitiveFailed(1)
    /\ PrimitiveSucceeded(2)
    /\ report = << "Failed", "Generated" >>
    /\ NonePresent(fs0[KEY_LOCATIONS[2]])

\* C5: when main has returned, a location reported Generated whose public
\* key file is absent is among the locations warned about, and the exit
\* code is not 0.
C5_VerificationIndependence ==
    pc = "done" =>
        \A n \in 1..Len(report) :
            (report[n] = "Generated" /\ fs[KEY_LOCATIONS[n]].pub = Absent) =>
                KEY_LOCATIONS[n] \in Range(missing) /\ exit_code # 0

\* no location Failed, one is Generated without a public key file
C5_Witness ==
    /\ pc = "done"
    /\ "Failed" \notin Range(report)
    /\ exit_code = 1
    /\ \E n \in 1..Len(report) :
          /\ report[n] = "Generated"
          /\ fs[KEY_LOCATIONS[n]].priv # Absent
          /\ fs[KEY_LOCATIONS[n]].pub = Absent

\* the outcome of every processed location is one of the three kinds and is
\* the one its situation calls for
OutcomeKindsExact ==
    \A n \in 1..Len(report) :
        LET d0 == fs0[KEY_LOCATIONS[n]]
        IN  /\ report[n] \in { "Skipped", "Generated", "Failed" }
            /\ report[n] = "Skipped" <=> (BothPresent(d0) /\ ~force)
            /\ report[n] = "Generated" <=> BothStepsReturnedOk(n)
            /\ report[n] = "Failed" <=> (Invoked(n) /\ PrimitiveFailed(n))

\* the value main receives differs between a Failed and a Skipped location
ReturnTellsFailedFromSkipped ==
    \A m, n \in 1..Len(report) :
        (report[m] = "Failed" /\ report[n] = "Skipped") => ret[m] # ret[n]

\* C6: every processed location has exactly one of the outcomes Skipped
\* (both files existed, no force), Generated (both openssl steps completed)
\* and Failed (generation attempted and not completed), and the value
\* returned to main tells Failed from Skipped.
C6_OutcomeKinds == OutcomeKindsExact /\ ReturnTellsFailedFromSkipped

\* the ancestors of the script's directory, itself and the root included,
\* that contain pom.xml
MarkedAncestors == { d \in 0..start : d \in marker }

Deepest(S) == CHOOSE d \in S : \A e \in S : e <= d

\* C7: when some ancestor of the starting directory (the starting
\* directory and the filesystem root included) contains pom.xml,
\* find_project_root returns the nearest one.
C7_NearestMarkedAncestor ==
    (pc = "loop" /\ MarkedAncestors # {}) =>
        project_root = Deepest(MarkedAncestors)

\* C8: when no directory from the starting directory up to the filesystem
\* root contains pom.xml, find_project_root eventually returns, and
\* returns the starting directory.
C8_RootFallback ==
    (pc = "locate" /\ MarkedAncestors = {})
        ~> (pc = "loop" /\ project_root = start)

\* the walk went from the deepest starting directory up to the root
C8_Witness ==
    /\ pc = "loop"
    /\ MarkedAncestors = {}
    /\ start = MaxDepth
    /\ current = 0
    /\ project_root = start

\* C9: a run that started with no key file anywhere and in which every
\* openssl invocation succeeded reports Generated for every location,
\* warns about none and exits 0.
C9_FreshSuccess ==
    ( /\ pc = "done"
      /\ \A l \in Locations : NonePresent(fs0[l])
      /\ \A c \in Range(calls) : c.result = "ok" ) =>
        /\ AllReported("Generated")
        /\ \A l \in Locations : BothPresent(fs[l])
        /\ missing = << >>
        /\ exit_code = 0

\* such a run: two invocations per location, all successful
C9_Witness ==
    /\ pc = "done"
    /\ \A l \in Locations : fs0[l] = NoDirectory
    /\ Len(calls) = 2 * Len(KEY_LOCATIONS)
    /\ \A c \in Range(calls) : c.result = "ok"
    /\ exit_code = 0

\* C10: a run that started with no key file anywhere and in which openssl
\* could never be started reports Failed for every location, creates no
\* key file, warns about every location and exits non-zero.
C10_ToolUnavailable ==
    ( /\ pc = "done"
      /\ \A l \in Locations : NonePresent(fs0[l])
      /\ \A c \in Range(calls) : c.result = "notfound" ) =>
        /\ AllReported("Failed")
        /\ \A n \in 1..Len(KEY_LOCATIONS) : ResultsOf(n, "genpkey") = { "notfound" }
        /\ \A l \in Locations : NonePresent(fs[l])
        /\ missing = KEY_LOCATIONS
        /\ exit_code # 0

\* such a run: one attempt per location, none could start openssl
C10_Witness ==
    /\ pc = "done"
    /\ \A l \in Locations : fs0[l] = NoDirectory
    /\ Len(calls) = Len(KEY_LOCATIONS)
    /\ \A c \in Range(calls) : c.result = "notfound"
    /\ exit_code = 1

\* C11: no step of any run removes a key directory or a key file: what
\* exists before a step exists after it.
C11_NeverDeletes ==
    [][ \A l \in Locations :
          /\ fs[l].dir => fs'[l].dir
          /\ fs[l].priv # Absent => fs'[l].priv # Absent
          /\ fs[l].pub # Absent => fs'[l].pub # Absent ]_vars

\* a location whose second step failed keeps the private key the first
\* step wrote, and the other location's keys are still there
C11_Witness ==
    /\ pc = "done"
    /\ \E n \in 1..Len(report) :
          /\ report[n] = "Failed"
          /\ NonePresent(fs0[KEY_LOCATIONS[n]])
          /\ ResultsOf(n, "genpkey") = { "ok" }
          /\ fs[KEY_LOCATIONS[n]].priv # Absent
    /\ \E l \in Locations : BothPresent(fs0[l]) /\ BothPresent(fs[l])

C14_PublicAfterPrivate ==
    /\ \A k \in 1..Len(calls) :
          calls[k].step = "pubout" =>
              /\ k > 1
              /\ calls[k - 1].loc = calls[k].loc
              /\ calls[k - 1].step = "genpkey"
              /\ calls[k - 1].result \in { "ok", "ok_nofile" }
    /\ \A n \in 1..Len(KEY_LOCATIONS) :
          ResultsOf(n, "genpkey") \cap { "fail", "notfound" } # {} =>
              /\ ResultsOf(n, "pubout") = {}
              /\ fs[KEY_LOCATIONS[n]].pub = fs0[KEY_LOCATIONS[n]].pub
              /\ n <= Len(report)
              /\ report[n] = "Failed"

\* genpkey raised where no public key existed; the other location got
\* its public key after a successful genpkey
C14_Witness ==
    /\ pc = "done"
    /\ \E n \in 1..Len(report) :
          /\ ResultsOf(n, "genpkey") \cap { "fail", "notfound" } # {}
          /\ fs0[KEY_LOCATIONS[n]].pub = Absent
          /\ report[n] = "Failed"
    /\ \E n \in 1..Len(report) : ResultsOf(n, "pubout") = { "ok" }

\* exactly one of the two key files of a location is present
ExactlyOnePresent(d) == (d.priv # Absent) # (d.pub # Absent)

C17_ExitIgnoresOutcomes ==
    pc = "done" =>
        /\ ("Failed" \in Range(report) /\ \A l \in Locations : BothPresent(fs[l]))
              => exit_code = 0
        /\ exit_code = 1 => \E l \in Locations : ~BothPresent(fs[l])

\* force over existing key pairs, openssl failed everywhere, exit code 0
C17_Witness ==
    /\ pc = "done"
    /\ force
    /\ AllReported("Failed")
    /\ \A l \in Locations : BothPresent(fs0[l])
    /\ exit_code = 0

\* the openssl invocations of a run are made location by location, in the
\* configured order, at most once per step and location, and for no
\* location the loop has not reached
CallsInConfiguredOrder ==
    /\ \A j, k \in 1..Len(calls) :
          (j < k) =>
              \E a, b \in 1..Len(KEY_LOCATIONS) :
                  /\ calls[j].loc = KEY_LOCATIONS[a]
                  /\ calls[k].loc = KEY_LOCATIONS[b]
                  /\ a <= b
                  /\ (a = b) => (calls[j].step = "genpkey" /\ calls[k].step = "pubout")
    /\ \A k \in 1..Len(calls) :
          \E n \in 1..Len(KEY_LOCATIONS) : n <= i /\ calls[k].loc = KEY_LOCATIONS[n]

\* C15: every run that has started reaches the end of main with an exit
\* code; the loop index goes up by one, with one outcome reported for the
\* location it leaves, so a finished run has processed every location
\* once and in the configured order; and the step that sets the exit code
\* comes after the last location and leaves the filesystem as it is.
C15_RunTerminatesInOrder ==
    /\ (pc = "locate") ~> (pc = "done" /\ exit_code \in { 0, 1 })
    /\ [](pc = "done" => Len(report) = Len(KEY_LOCATIONS))
    /\ [](CallsInConfiguredOrder)
    /\ [][ (i' # i /\ pc # "done") =>
              /\ i <= Len(KEY_LOCATIONS)
              /\ i' = i + 1
              /\ Len(report') = i
              /\ SubSeq(report', 1, i - 1) = report ]_vars
    /\ [][ (exit_code' # exit_code /\ exit_code' # Running) =>
              /\ i > Len(KEY_LOCATIONS)
              /\ Len(report) = Len(KEY_LOCATIONS)
              /\ fs' = fs
              /\ report' = report ]_vars

\* a run has ended, after openssl was invoked twice per location
C15_Witness ==
    /\ pc = "done"
    /\ Len(calls) = 2 * Len(KEY_LOCATIONS)
    /\ Len(report) = Len(KEY_LOCATIONS)
    /\ exit_code = 1

====
